---- MODULE Spec2Model ----
(***************************************************************************)
(* A model of sansio_jsonrpc: the JSON-RPC 2.0 message types, the error    *)
(* taxonomy with its two code registries, and the peer.                    *)
(*                                                                         *)
(* Python values are tagged records.  A scalar is [t, i, s]: t is the      *)
(* Python type, i the number (a float is kept in halves, so 1.5 is i = 3   *)
(* and 1.0 is i = 2), s the string.  A dict is [t |-> "dict", members],    *)
(* members a function from its keys; a list is [t |-> "list", items].      *)
(* A MissingId instance carries its object identity in i.  A backquote in   *)
(* a message of the source is written as a quote.                          *)
(***************************************************************************)
EXTENDS Integers, Sequences, FiniteSets, TLC

VARIABLES
    id_gen,                 \* JsonRpcPeer._id_gen: the next value of the counter
    request_log,            \* per request() call, whether it returned and its id
    reserved_classes,       \* JsonRpcReservedErrorMeta._error_classes
    application_classes,    \* JsonRpcApplicationErrorMeta._error_classes
    declared,               \* number of error classes the application declared
    op,                     \* the last call made
    arg,                    \* its input
    outcome,                \* "return" or "raise"
    ret,                    \* the value returned, or the exception raised
    held,                   \* a message or exception object the caller kept
    wire,                   \* the JSON dict the caller got from held.to_json_dict()
    callers                 \* per thread sharing the peer: where it is in request()

vars == <<id_gen, request_log, reserved_classes, application_classes, declared,
          op, arg, outcome, ret, held, wire, callers>>

(***************************************************************************)
(* Bounds.                                                                 *)
(***************************************************************************)
MaxRequests == 3
MaxDeclarations == 2
MaxCallers == 2

(***************************************************************************)
(* Python values.                                                          *)
(***************************************************************************)
Val(t, i, s) == [t |-> t, i |-> i, s |-> s]
PyNone == Val("null", 0, "")
PyBool(b) == Val("bool", IF b THEN 1 ELSE 0, "")
PyInt(n) == Val("int", n, "")
PyFloat(halves) == Val("float", halves, "")
PyStr(s) == Val("str", 0, s)
PyObject == Val("object", 0, "")
Dict(members) == [t |-> "dict", members |-> members]
List(items) == [t |-> "list", items |-> items]
EmptyDict == Dict([k \in {} |-> PyNone])
FooBar == Dict([foo |-> PyStr("bar")])

IsNone(v) == v.t = "null"

\* bool(v): None, zero, the empty string and empty containers are false.
Truthy(v) ==
    CASE v.t = "null" -> FALSE
      [] v.t \in {"bool", "int", "float"} -> v.i # 0
      [] v.t = "str" -> v.s # ""
      [] v.t = "dict" -> DOMAIN v.members # {}
      [] v.t = "list" -> Len(v.items) > 0
      [] OTHER -> TRUE

IsNumber(v) == v.t \in {"bool", "int", "float"}
Halves(v) == IF v.t = "float" THEN v.i ELSE 2 * v.i

\* a == b.  Numbers compare by value across bool, int and float; an object of a
\* class with no __eq__ (MissingId) is equal only to itself.
PyEq(a, b) ==
    IF IsNumber(a) /\ IsNumber(b) THEN Halves(a) = Halves(b)
    ELSE a = b

\* a or b
PyOr(a, b) == IF Truthy(a) THEN a ELSE b

(***************************************************************************)
(* class MissingId: a sentinel with no __eq__; each call of MissingId()    *)
(* makes a new object, distinct from every object still alive.             *)
(***************************************************************************)
MissingId(oid) == Val("MissingId", oid, "")
IsMissingId(v) == v.t = "MissingId"

RECURSIVE LeastFree(_, _)
LeastFree(n, live) == IF n \in live THEN LeastFree(n + 1, live) ELSE n
NewOid(live) == LeastFree(0, live)

\* The identities of the MissingId objects a message holds.
OidsOf(obj) ==
    IF obj.t \in {"JsonRpcRequest", "JsonRpcResponse"} /\ IsMissingId(obj.id)
    THEN {obj.id.i} ELSE {}

(***************************************************************************)
(* exc.py: JsonRpcError.                                                   *)
(***************************************************************************)
JsonRpcError(code, message, data) ==
    [t |-> "JsonRpcError", code |-> code, message |-> message, data |-> data]

\* A to_json_dict that forgets the optional data.
ErrorToJsonDictNoData(self) ==
    Dict([code |-> self.code, message |-> self.message])

ErrorToJsonDict(self) ==
    LET dict_ == [code |-> self.code, message |-> self.message]
    IN IF ~IsNone(self.data)
       THEN Dict([k \in {"code", "message", "data"} |->
                     IF k = "data" THEN self.data ELSE dict_[k]])
       ELSE Dict(dict_)

\* The __eq__ that @dataclass generates: same class, and the fields equal.
ErrorEq(a, b) ==
    IF a.t = "JsonRpcError" /\ b.t = "JsonRpcError"
    THEN PyEq(a.code, b.code) /\ PyEq(a.message, b.message) /\ PyEq(a.data, b.data)
    ELSE PyEq(a, b)

(***************************************************************************)
(* Calls either return a value or raise an exception.                      *)
(***************************************************************************)
Return(v) == [outcome |-> "return", value |-> v]
Raise(e) == [outcome |-> "raise", value |-> e]
Raised(r) == r.outcome = "raise"

\* A Python class: the hierarchy it was declared in, ERROR_CODE, ERROR_MESSAGE.
\* n tells apart the classes an application declares.
Class(name, domain, code, msg, n) ==
    [t |-> "class", name |-> name, domain |-> domain, code |-> code, msg |-> msg,
     n |-> n]
Builtin(name) == Class(name, "python", 0, "", 0)
KeyError == Builtin("KeyError")
TypeError == Builtin("TypeError")
AttributeError == Builtin("AttributeError")
RuntimeError == Builtin("RuntimeError")

Exception(cls, error) == [t |-> "exception", cls |-> cls, error |-> error]
PyRaise(cls) == Raise(Exception(cls, PyNone))

\* JsonDict lookup json_dict[key]
HasKey(json_dict, key) == key \in DOMAIN json_dict

\* dict_[key] = value, and dict_.get(key, default)
Put(dict_, key, value) ==
    [k \in DOMAIN dict_ \cup {key} |-> IF k = key THEN value ELSE dict_[k]]
Get(dict_, key, default) == IF key \in DOMAIN dict_ THEN dict_[key] ELSE default

(***************************************************************************)
(* exc.py: the exception classes and the two metaclasses.                  *)
(***************************************************************************)
ReservedLow == -32768
ReservedHigh == -32000

JsonRpcReservedError ==
    Class("JsonRpcReservedError", "reserved", -32000, "JSON-RPC reserved error", 0)
JsonRpcApplicationError ==
    Class("JsonRpcApplicationError", "application", -1, "JSON-RPC", 0)
JsonRpcParseError ==
    Class("JsonRpcParseError", "reserved", -32700,
          "Invalid JSON was received by the server.", 0)
JsonRpcInvalidRequestError ==
    Class("JsonRpcInvalidRequestError", "reserved", -32600,
          "The JSON sent is not a valid Request object.", 0)
JsonRpcMethodNotFoundError ==
    Class("JsonRpcMethodNotFoundError", "reserved", -32601,
          "The method does not exist / is not available.", 0)
JsonRpcInvalidParamsError ==
    Class("JsonRpcInvalidParamsError", "reserved", -32602,
          "Invalid method parameter(s).", 0)
JsonRpcInternalError ==
    Class("JsonRpcInternalError", "reserved", -32602, "Internal JSON-RPC error.", 0)

\* The classes exc.py declares, in the order it declares them.
ModuleClasses ==
    << JsonRpcReservedError, JsonRpcApplicationError, JsonRpcParseError,
       JsonRpcInvalidRequestError, JsonRpcMethodNotFoundError,
       JsonRpcInvalidParamsError, JsonRpcInternalError >>

\* A registration that keeps the class a code already has.
ReservedMetaInitFirstWins(registry, cls) ==
    IF cls.code < ReservedLow \/ cls.code > ReservedHigh
    THEN [raised |-> TRUE, registry |-> registry]
    ELSE [raised |-> FALSE,
          registry |-> IF HasKey(registry, cls.code) THEN registry
                       ELSE Put(registry, cls.code, cls)]

\* JsonRpcReservedErrorMeta.__init__ on the registry: the class statement either
\* raises RuntimeError or registers the class under its ERROR_CODE.
ReservedMetaInit(registry, cls) ==
    IF cls.code < ReservedLow \/ cls.code > ReservedHigh
    THEN [raised |-> TRUE, registry |-> registry]
    ELSE [raised |-> FALSE, registry |-> Put(registry, cls.code, cls)]

\* A range check that leaves out the lowest reserved code.
ApplicationMetaInitOpenRange(registry, cls) ==
    IF cls.code > ReservedLow /\ cls.code <= ReservedHigh
    THEN [raised |-> TRUE, registry |-> registry]
    ELSE [raised |-> FALSE, registry |-> Put(registry, cls.code, cls)]

\* JsonRpcApplicationErrorMeta.__init__
ApplicationMetaInit(registry, cls) ==
    IF cls.code >= ReservedLow /\ cls.code <= ReservedHigh
    THEN [raised |-> TRUE, registry |-> registry]
    ELSE [raised |-> FALSE, registry |-> Put(registry, cls.code, cls)]

\* The registries once the first n classes of exc.py are declared.
RECURSIVE ImportedClasses(_, _)
ImportedClasses(domain, n) ==
    IF n = 0 THEN [k \in {} |-> JsonRpcReservedError]
    ELSE LET before == ImportedClasses(domain, n - 1)
             cls == ModuleClasses[n]
         IN IF cls.domain # domain THEN before
            ELSE IF domain = "reserved" THEN ReservedMetaInit(before, cls).registry
            ELSE ApplicationMetaInit(before, cls).registry

\* JsonRpcReservedError.__init__(message, data)
ReservedInit(cls, message, data) ==
    Exception(cls, JsonRpcError(PyInt(cls.code), PyOr(message, PyStr(cls.msg)), data))

\* JsonRpcApplicationError.__init__(message, data=, code=)
ApplicationInit(cls, message, data, code) ==
    Exception(cls, JsonRpcError(PyOr(code, PyInt(cls.code)),
                                PyOr(message, PyStr(cls.msg)), data))

\* JsonRpcReservedError.exc_from_error
ReservedExcFromError(registry, error) ==
    LET cls == Get(registry, error.code.i, JsonRpcReservedError)
    IN ReservedInit(cls, error.message, error.data)

\* JsonRpcApplicationError.exc_from_error
ApplicationExcFromError(registry, error) ==
    LET cls == Get(registry, error.code.i, JsonRpcApplicationError)
    IN ApplicationInit(cls, error.message, error.data, PyNone)

\* JsonRpcException.exc_from_error
ExcFromError(reserved, application, error) ==
    IF ReservedLow <= error.code.i /\ error.code.i <= ReservedHigh
    THEN ReservedExcFromError(reserved, error)
    ELSE ApplicationExcFromError(application, error)

\* JsonRpcException.get_error
GetError(exc) == exc.error

(***************************************************************************)
(* main.py: validate_json_rpc_id, JsonRpcRequest, JsonRpcResponse.         *)
(***************************************************************************)
NoRaise == [t |-> "none"]

\* A validation written with isinstance(), which takes a bool for an int.
ValidateJsonRpcIdIsinstance(id_, exc) ==
    IF id_.t = "float" /\ id_.i % 2 # 0
    THEN ReservedInit(exc, PyStr("'id' number cannot have a fractional part."), PyNone)
    ELSE IF id_.t \notin {"bool", "int", "float", "str"}
    THEN ReservedInit(exc, PyStr("'id' must be a number, string, or null."), PyNone)
    ELSE NoRaise

\* validate_json_rpc_id(id_, exc): the exception raised, or NoRaise.
ValidateJsonRpcId(id_, exc) ==
    IF id_.t = "float" /\ id_.i % 2 # 0
    THEN ReservedInit(exc, PyStr("'id' number cannot have a fractional part."), PyNone)
    ELSE IF id_.t \notin {"int", "float", "str"}
    THEN ReservedInit(exc, PyStr("'id' must be a number, string, or null."), PyNone)
    ELSE NoRaise

JsonRpcRequest(id, method, params, jsonrpc) ==
    [t |-> "JsonRpcRequest", id |-> id, method |-> method, params |-> params,
     jsonrpc |-> jsonrpc]

RequestEq(a, b) ==
    /\ a.t = "JsonRpcRequest" /\ b.t = "JsonRpcRequest"
    /\ PyEq(a.id, b.id) /\ PyEq(a.method, b.method)
    /\ PyEq(a.params, b.params) /\ PyEq(a.jsonrpc, b.jsonrpc)

\* JsonRpcRequest.is_notification
IsNotification(self) == IsMissingId(self.id)

\* JsonRpcRequest.__post_init__: the exception raised, or NoRaise.
RequestPostInit(self) ==
    LET id_check == IF ~IsNotification(self)
                    THEN ValidateJsonRpcId(self.id, JsonRpcInvalidRequestError)
                    ELSE NoRaise
    IN IF id_check # NoRaise THEN id_check
       ELSE IF self.method.t # "str"
       THEN ReservedInit(JsonRpcInvalidRequestError,
                         PyStr("'method' must be a string."), PyNone)
       ELSE IF ~(IsNone(self.params) \/ self.params.t \in {"dict", "list"})
       THEN ReservedInit(JsonRpcInvalidRequestError,
                         PyStr("'params' must a list or object."), PyNone)
       ELSE IF ~PyEq(self.jsonrpc, PyStr("2.0"))
       THEN ReservedInit(JsonRpcInvalidRequestError,
                         PyStr("'jsonrpc' must be \"2.0\"."), PyNone)
       ELSE NoRaise

\* JsonRpcRequest(id=, method=, params=, jsonrpc=)
NewJsonRpcRequest(id, method, params, jsonrpc) ==
    LET self == JsonRpcRequest(id, method, params, jsonrpc)
        check == RequestPostInit(self)
    IN IF check # NoRaise THEN Raise(check) ELSE Return(self)

\* A to_json_dict that tests the params for truth, not for None.
RequestToJsonDictTruthy(self) ==
    LET keys == {"method", "jsonrpc"}
                \cup (IF ~IsMissingId(self.id) THEN {"id"} ELSE {})
                \cup (IF Truthy(self.params) THEN {"params"} ELSE {})
    IN Dict([k \in keys |-> CASE k = "method" -> self.method
                              [] k = "jsonrpc" -> self.jsonrpc
                              [] k = "id" -> self.id
                              [] k = "params" -> self.params])

\* JsonRpcRequest.to_json_dict
RequestToJsonDict(self) ==
    LET keys == {"method", "jsonrpc"}
                \cup (IF ~IsMissingId(self.id) THEN {"id"} ELSE {})
                \cup (IF ~IsNone(self.params) THEN {"params"} ELSE {})
    IN Dict([k \in keys |-> CASE k = "method" -> self.method
                              [] k = "jsonrpc" -> self.jsonrpc
                              [] k = "id" -> self.id
                              [] k = "params" -> self.params])

\* JsonRpcRequest.from_json_dict; oid is the identity of the MissingId() it makes.
RequestFromJsonDict(json_dict, oid) ==
    IF json_dict.t # "dict" THEN PyRaise(AttributeError)
    ELSE LET d == json_dict.members
             id_ == Get(d, "id", MissingId(oid))
             params == IF HasKey(d, "params") THEN d["params"] ELSE PyNone
         IN IF ~HasKey(d, "method") THEN PyRaise(KeyError)
            ELSE IF ~HasKey(d, "jsonrpc") THEN PyRaise(KeyError)
            ELSE NewJsonRpcRequest(id_, d["method"], params, d["jsonrpc"])

JsonRpcResponse(id, result, error, jsonrpc) ==
    [t |-> "JsonRpcResponse", id |-> id, result |-> result, error |-> error,
     jsonrpc |-> jsonrpc]

ResponseEq(a, b) ==
    /\ a.t = "JsonRpcResponse" /\ b.t = "JsonRpcResponse"
    /\ PyEq(a.id, b.id) /\ PyEq(a.result, b.result)
    /\ ErrorEq(a.error, b.error) /\ PyEq(a.jsonrpc, b.jsonrpc)

\* JsonRpcResponse.__post_init__: the exception raised, or NoRaise.
ResponsePostInit(self) ==
    LET id_check == IF ~IsNone(self.id)
                    THEN ValidateJsonRpcId(self.id, JsonRpcInternalError)
                    ELSE NoRaise
    IN IF id_check # NoRaise THEN id_check
       ELSE IF IsNone(self.result) = IsNone(self.error)
       THEN ReservedInit(JsonRpcInternalError,
                PyStr("Response must contain one of 'result' or 'error'."), PyNone)
       ELSE IF Truthy(self.result)
               /\ self.result.t \notin {"int", "float", "bool", "str", "list", "dict"}
       THEN ReservedInit(JsonRpcInternalError,
                PyStr("'result' must be a valid JSON type."), PyNone)
       ELSE IF Truthy(self.error) /\ self.error.t # "JsonRpcError"
       THEN ReservedInit(JsonRpcInternalError,
                PyStr("'error' must be a JsonRpcError."), PyNone)
       ELSE NoRaise

\* JsonRpcResponse(id=, result=, error=, jsonrpc=)
NewJsonRpcResponse(id, result, error, jsonrpc) ==
    LET self == JsonRpcResponse(id, result, error, jsonrpc)
        check == ResponsePostInit(self)
    IN IF check # NoRaise THEN Raise(check) ELSE Return(self)

\* JsonRpcResponse.success
Success(self) == IsNone(self.error)

\* JsonRpcResponse.to_json_dict
ResponseToJsonDict(self) ==
    IF Success(self)
    THEN Return(Dict([id |-> self.id, jsonrpc |-> self.jsonrpc,
                      result |-> self.result]))
    ELSE IF self.error.t # "JsonRpcError" THEN PyRaise(AttributeError)
    ELSE Return(Dict([id |-> self.id, jsonrpc |-> self.jsonrpc,
                      error |-> ErrorToJsonDict(self.error)]))

\* JsonRpcError.from_json_dict
ErrorFromJsonDict(json_dict) ==
    IF json_dict.t # "dict" THEN PyRaise(TypeError)
    ELSE IF ~HasKey(json_dict.members, "code") THEN PyRaise(KeyError)
    ELSE IF ~HasKey(json_dict.members, "message") THEN PyRaise(KeyError)
    ELSE Return(JsonRpcError(json_dict.members["code"], json_dict.members["message"],
                             Get(json_dict.members, "data", PyNone)))

\* JsonRpcResponse.from_json_dict
ResponseFromJsonDict(json_dict) ==
    IF json_dict.t # "dict" THEN PyRaise(TypeError)
    ELSE LET d == json_dict.members
             error == IF HasKey(d, "error") THEN ErrorFromJsonDict(d["error"])
                      ELSE Return(PyNone)
             result == IF HasKey(d, "result") THEN d["result"] ELSE PyNone
         IN IF Raised(error) THEN error
            ELSE IF ~HasKey(d, "id") THEN PyRaise(KeyError)
            ELSE IF ~HasKey(d, "jsonrpc") THEN PyRaise(KeyError)
            ELSE NewJsonRpcResponse(d["id"], result, error.value, d["jsonrpc"])

(***************************************************************************)
(* The values the calls are made with.                                     *)
(***************************************************************************)
Ids == {PyNone, PyBool(TRUE), PyInt(0), PyInt(1), PyFloat(2), PyFloat(3), PyStr("a")}
Methods == {PyStr("hello_world"), PyInt(1)}
Params == {PyNone, FooBar, EmptyDict, List(<<PyInt(1)>>), PyInt(1)}
Versions == {PyStr("2.0"), PyStr("1.0")}
JsonResults == {PyNone, PyInt(0), PyBool(FALSE), PyStr("result"), FooBar, EmptyDict}
Results == JsonResults \cup {PyObject}
AnError == JsonRpcError(PyInt(-32700), PyStr("An error occurred"), PyNone)
AnErrorWithData == JsonRpcError(PyInt(1), PyStr("Application error"), FooBar)
Errors == {PyNone, AnError, AnErrorWithData, PyStr("foo"), PyStr("")}

\* A JSON object with some of the keys: Absent marks a key left out.
Absent == [t |-> "absent"]
WireOf(fields) ==
    Dict([k \in {key \in DOMAIN fields : fields[key] # Absent} |-> fields[k]])
RequestWires ==
    { WireOf([id |-> i, method |-> m, params |-> p, jsonrpc |-> v]) :
        i \in Ids \cup {Absent}, m \in Methods \cup {Absent},
        p \in Params \cup {Absent}, v \in Versions \cup {Absent} }
WireErrors ==
    { ErrorToJsonDict(AnError), ErrorToJsonDict(AnErrorWithData),
      Dict([code |-> PyInt(1)]), Dict([message |-> PyStr("Application error")]) }
WireIds == {PyNone, PyInt(0), PyFloat(3)}
ResponseWires ==
    { WireOf([id |-> i, result |-> r, error |-> e, jsonrpc |-> v]) :
        i \in WireIds \cup {Absent}, r \in JsonResults \cup {Absent},
        e \in WireErrors \cup {Absent}, v \in Versions \cup {Absent} }

(***************************************************************************)
(* Threads that share one peer.  A thread is outside request() or inside   *)
(* it, between next(self._id_gen) and the return; ids are the ids its calls *)
(* took from the counter and returned the ids its calls returned.          *)
(***************************************************************************)
Callers == 1..MaxCallers
Idle(ids, returned) ==
    [pc |-> "idle", request_id |-> 0, method |-> PyNone, params |-> PyNone,
     ids |-> ids, returned |-> returned]
InRequest(request_id, method, params, ids, returned) ==
    [pc |-> "request", request_id |-> request_id, method |-> method,
     params |-> params, ids |-> ids, returned |-> returned]

(***************************************************************************)
(* The state once the package is imported and a peer constructed.          *)
(***************************************************************************)
Init ==
    /\ id_gen = 0
    /\ request_log = <<>>
    /\ reserved_classes = ImportedClasses("reserved", Len(ModuleClasses))
    /\ application_classes = ImportedClasses("application", Len(ModuleClasses))
    /\ declared = 0
    /\ op = "import"
    /\ arg = PyNone
    /\ outcome = "return"
    /\ ret = PyNone
    /\ held = PyNone
    /\ wire = PyNone
    /\ callers = [c \in Callers |-> Idle(<<>>, <<>>)]

PeerVars == <<id_gen, request_log>>
RegistryVars == <<reserved_classes, application_classes, declared>>

\* The call's result becomes the last call's outcome.
Called(name, input, result) ==
    /\ op' = name
    /\ arg' = input
    /\ outcome' = result.outcome
    /\ ret' = result.value

\* Identities of the MissingId objects the caller's variables still refer to.
Live == OidsOf(held) \cup OidsOf(ret)

(***************************************************************************)
(* The message types, called directly.                                     *)
(***************************************************************************)
\* JsonRpcRequest(id=..., method=..., params=..., jsonrpc=...)
NewRequest ==
    \E i \in Ids \cup {MissingId(NewOid(Live))}, m \in Methods, p \in Params,
       v \in Versions :
        LET result == NewJsonRpcRequest(i, m, p, v)
        IN /\ Called("JsonRpcRequest", JsonRpcRequest(i, m, p, v), result)
           /\ held' = IF Raised(result) THEN PyNone ELSE result.value
           /\ wire' = PyNone
           /\ UNCHANGED <<callers, PeerVars, RegistryVars>>

\* JsonRpcResponse(id=..., result=..., error=..., jsonrpc=...)
NewResponse ==
    \E i \in Ids, r \in Results, e \in Errors, v \in Versions :
        LET result == NewJsonRpcResponse(i, r, e, v)
        IN /\ Called("JsonRpcResponse", JsonRpcResponse(i, r, e, v), result)
           /\ held' = IF Raised(result) THEN PyNone ELSE result.value
           /\ wire' = PyNone
           /\ UNCHANGED <<callers, PeerVars, RegistryVars>>

\* held.to_json_dict()
ToJsonDict ==
    /\ held.t \in {"JsonRpcRequest", "JsonRpcResponse"}
    /\ LET result == IF held.t = "JsonRpcRequest"
                     THEN Return(RequestToJsonDict(held))
                     ELSE ResponseToJsonDict(held)
       IN /\ Called("to_json_dict", held, result)
          /\ wire' = IF Raised(result) THEN PyNone ELSE result.value
    /\ UNCHANGED <<callers, held, PeerVars, RegistryVars>>

\* JsonRpcRequest.from_json_dict(d), d the dict held.to_json_dict() gave or a
\* dict received from elsewhere.
DecodeRequest ==
    \/ /\ wire # PyNone
       /\ Called("JsonRpcRequest.from_json_dict", wire,
                 RequestFromJsonDict(wire, NewOid(Live)))
       /\ UNCHANGED <<callers, held, wire, PeerVars, RegistryVars>>
    \/ \E d \in RequestWires :
        /\ Called("JsonRpcRequest.from_json_dict", d,
                  RequestFromJsonDict(d, NewOid(Live)))
        /\ held' = PyNone
        /\ wire' = PyNone
        /\ UNCHANGED <<callers, PeerVars, RegistryVars>>

\* JsonRpcResponse.from_json_dict(d)
DecodeResponse ==
    \/ /\ wire # PyNone
       /\ Called("JsonRpcResponse.from_json_dict", wire, ResponseFromJsonDict(wire))
       /\ UNCHANGED <<callers, held, wire, PeerVars, RegistryVars>>
    \/ \E d \in ResponseWires :
        /\ Called("JsonRpcResponse.from_json_dict", d, ResponseFromJsonDict(d))
        /\ held' = PyNone
        /\ wire' = PyNone
        /\ UNCHANGED <<callers, PeerVars, RegistryVars>>

NextMsg == NewRequest \/ NewResponse \/ ToJsonDict \/ DecodeRequest \/ DecodeResponse
SpecMsg == Init /\ [][NextMsg]_vars

(***************************************************************************)
(* Properties of the message types, checked under SpecMsg.                 *)
(***************************************************************************)
\* The last call decoded, as a request, the dict held.to_json_dict() gave.
RequestRoundTripped ==
    /\ op = "JsonRpcRequest.from_json_dict"
    /\ held.t = "JsonRpcRequest"
    /\ wire # PyNone

\* C2: for every request that constructs, from_json_dict(to_json_dict()) returns a
\* request equal (==) to the original, a notification included.
C2_RequestRoundTrip ==
    RequestRoundTripped => outcome = "return" /\ RequestEq(ret, held)

\* The last call decoded, as a response, the dict held.to_json_dict() gave.
ResponseRoundTripped ==
    /\ op = "JsonRpcResponse.from_json_dict"
    /\ held.t = "JsonRpcResponse"
    /\ wire # PyNone

\* C3: for every response that constructs with a result or with a JsonRpcError,
\* to_json_dict() carries id and exactly one of the keys result / error, and
\* from_json_dict of it returns a response equal to the original.
C3_ResponseRoundTrip ==
    /\ (held.t = "JsonRpcResponse" /\ held.error.t \in {"null", "JsonRpcError"}
        /\ op = "to_json_dict")
       => /\ outcome = "return"
          /\ HasKey(ret.members, "id")
          /\ HasKey(ret.members, "result") # HasKey(ret.members, "error")
    /\ ResponseRoundTripped => outcome = "return" /\ ResponseEq(ret, held)

C3_Witness ==
    /\ ResponseRoundTripped
    /\ held.error = AnErrorWithData
    /\ held.id = PyFloat(2)
    /\ outcome = "return"

\* An id the protocol forbids: a boolean, or a float with a fractional part.
ForbiddenId(id) == id.t = "bool" \/ (id.t = "float" /\ id.i % 2 # 0)
\* An integer, a string, or a float with no fractional part.
PlainId(id) == id.t \in {"int", "str"} \/ (id.t = "float" /\ id.i % 2 = 0)
IdMessages ==
    { PyStr("'id' number cannot have a fractional part."),
      PyStr("'id' must be a number, string, or null.") }

\* C4: a boolean id or a float id with a fractional part is rejected at
\* construction, by JsonRpcRequest with JsonRpcInvalidRequestError and by
\* JsonRpcResponse with JsonRpcInternalError; an integer, a string or a float
\* without fractional part is never rejected for being the id, and such a float
\* compares equal to the integer.
C4_IdValidation ==
    /\ (op = "JsonRpcRequest" /\ ForbiddenId(arg.id))
       => outcome = "raise" /\ ret.cls = JsonRpcInvalidRequestError
    /\ (op = "JsonRpcResponse" /\ ForbiddenId(arg.id))
       => outcome = "raise" /\ ret.cls = JsonRpcInternalError
    /\ (op \in {"JsonRpcRequest", "JsonRpcResponse"} /\ PlainId(arg.id))
       => /\ outcome = "raise" => ret.error.message \notin IdMessages
          /\ (outcome = "return" /\ arg.id.t = "float")
             => PyEq(ret.id, PyInt(arg.id.i \div 2))

C4_Witness ==
    /\ op = "JsonRpcResponse"
    /\ arg.id = PyBool(TRUE)
    /\ arg.result = PyStr("result")
    /\ IsNone(arg.error)
    /\ outcome = "raise"

\* The fields other than id are those of a valid request.
RestOfRequestValid(r) ==
    /\ r.method.t = "str"
    /\ IsNone(r.params) \/ r.params.t \in {"dict", "list"}
    /\ r.jsonrpc = PyStr("2.0")

\* C5: a request whose id is present and null, constructed directly or decoded
\* from a dict with "id": null, is accepted, is not a notification and emits an
\* id key of null.
C5_NullIdAccepted ==
    /\ (op = "JsonRpcRequest" /\ IsNone(arg.id) /\ RestOfRequestValid(arg))
       => /\ outcome = "return"
          /\ ~IsNotification(ret)
          /\ RequestToJsonDict(ret).members["id"] = PyNone
    /\ (op = "JsonRpcRequest.from_json_dict" /\ arg.t = "dict"
        /\ DOMAIN arg.members = {"id", "method", "jsonrpc"}
        /\ IsNone(arg.members["id"])
        /\ arg.members["method"].t = "str" /\ arg.members["jsonrpc"] = PyStr("2.0"))
       => outcome = "return" /\ ~IsNotification(ret)

\* A dict a response can be read from: id and jsonrpc present, the id null or
\* plain, the error (when there) with its code and message.
ResponseWireReadable(d) ==
    /\ d.t = "dict"
    /\ {"id", "jsonrpc"} \subseteq DOMAIN d.members
    /\ IsNone(d.members["id"]) \/ PlainId(d.members["id"])
    /\ HasKey(d.members, "error")
       => {"code", "message"} \subseteq DOMAIN d.members["error"].members

\* C6: constructing or decoding a response with both of result / error, or with
\* neither, fails with JsonRpcInternalError; a dict with exactly one of the keys
\* (result being any JSON value) and a valid id decodes.
C6_ExactlyOneOfResultError ==
    /\ (op = "JsonRpcResponse" /\ IsNone(arg.result) = IsNone(arg.error))
       => outcome = "raise" /\ ret.cls = JsonRpcInternalError
    /\ (op = "JsonRpcResponse.from_json_dict" /\ ResponseWireReadable(arg))
       => IF HasKey(arg.members, "result") = HasKey(arg.members, "error")
          THEN outcome = "raise" /\ ret.cls = JsonRpcInternalError
          ELSE outcome = "return"

\* A dict that breaks an invariant of the request, its method and jsonrpc keys
\* being there.
BreaksRequestInvariant(d) ==
    \/ d["jsonrpc"] # PyStr("2.0")
    \/ d["method"].t # "str"
    \/ HasKey(d, "params") /\ d["params"].t \notin {"dict", "list"}
    \/ HasKey(d, "id") /\ ForbiddenId(d["id"])

\* The invariants of a request that exists.
RequestInvariant(r) ==
    /\ r.jsonrpc = PyStr("2.0")
    /\ r.method.t = "str"
    /\ IsNone(r.params) \/ r.params.t \in {"dict", "list"}
    /\ IsMissingId(r.id) \/ IsNone(r.id) \/ PlainId(r.id)

\* C7: every request that exists satisfies the invariants, and a dict breaking
\* one of them, a params key with a scalar or null included, is rejected with
\* JsonRpcInvalidRequestError.
C7_RequestInvariants ==
    /\ held.t = "JsonRpcRequest" => RequestInvariant(held)
    /\ (outcome = "return" /\ ret.t = "JsonRpcRequest") => RequestInvariant(ret)
    /\ (op = "JsonRpcRequest.from_json_dict" /\ arg.t = "dict"
        /\ {"method", "jsonrpc"} \subseteq DOMAIN arg.members
        /\ BreaksRequestInvariant(arg.members))
       => outcome = "raise" /\ ret.cls = JsonRpcInvalidRequestError

(***************************************************************************)
(* The error taxonomy, called directly.                                    *)
(***************************************************************************)
DeclaredCodes == {-32768, -32700, 1, 2}
Messages == {PyNone, PyStr(""), PyStr("Parse error")}
Datas == {PyNone, FooBar}
CodeArguments == {PyNone, PyInt(0), PyInt(7), PyInt(-32700)}
ReceivedErrors ==
    { JsonRpcError(PyInt(c), m, d) :
        c \in {-32768, -32700, -32602, -32001, -32000, -1, 0, 1, 5},
        m \in {PyStr(""), PyStr("Generic error")}, d \in Datas }

Range(f) == {f[x] : x \in DOMAIN f}
\* The exception classes a caller can name.
KnownClasses ==
    Range(ModuleClasses) \cup Range(reserved_classes) \cup Range(application_classes)

\* class UserError(JsonRpcReservedError or JsonRpcApplicationError):
\*     ERROR_CODE = code; ERROR_MESSAGE = "Default message"
Declare ==
    \E domain \in {"reserved", "application"}, code \in DeclaredCodes :
        LET cls == Class("UserError", domain, code, "Default message", declared + 1)
            done == IF domain = "reserved"
                    THEN ReservedMetaInit(reserved_classes, cls)
                    ELSE ApplicationMetaInit(application_classes, cls)
        IN /\ declared < MaxDeclarations
           /\ reserved_classes' =
                IF domain = "reserved" THEN done.registry ELSE reserved_classes
           /\ application_classes' =
                IF domain = "application" THEN done.registry ELSE application_classes
           /\ declared' = IF done.raised THEN declared ELSE declared + 1
           /\ Called("class", cls,
                     IF done.raised THEN PyRaise(RuntimeError) ELSE Return(cls))
           /\ UNCHANGED <<callers, held, wire, PeerVars>>

\* cls(message, data) for a reserved class, cls(message, data=, code=) for an
\* application class
NewException ==
    \E cls \in KnownClasses, message \in Messages, data \in Datas,
       code \in CodeArguments :
        LET exc == IF cls.domain = "reserved"
                   THEN ReservedInit(cls, message, data)
                   ELSE ApplicationInit(cls, message, data, code)
        IN /\ cls.domain = "reserved" => code = PyNone
           /\ Called("exception",
                     [t |-> "arguments", cls |-> cls, message |-> message,
                      data |-> data, code |-> code],
                     Return(exc))
           /\ held' = exc
           /\ UNCHANGED <<callers, wire, PeerVars, RegistryVars>>

\* JsonRpcException.exc_from_error(error), error being held.get_error() or an
\* error received from elsewhere.
Reconstruct ==
    \/ /\ held.t = "exception"
       /\ Called("exc_from_error", GetError(held),
                 Return(ExcFromError(reserved_classes, application_classes,
                                     GetError(held))))
       /\ UNCHANGED <<callers, held, wire, PeerVars, RegistryVars>>
    \/ \E error \in ReceivedErrors :
        /\ Called("exc_from_error", error,
                  Return(ExcFromError(reserved_classes, application_classes, error)))
        /\ held' = PyNone
        /\ UNCHANGED <<callers, wire, PeerVars, RegistryVars>>

NextExc == Declare \/ NewException \/ Reconstruct
SpecExc == Init /\ [][NextExc]_vars

(***************************************************************************)
(* Properties of the error taxonomy, checked under SpecExc.                *)
(***************************************************************************)
InReservedRange(code) == ReservedLow <= code /\ code <= ReservedHigh
RegistryFor(code) ==
    IF InReservedRange(code) THEN reserved_classes ELSE application_classes
GenericFor(code) ==
    IF InReservedRange(code) THEN JsonRpcReservedError ELSE JsonRpcApplicationError
\* No variant is registered for the code: the registry has no class for it, or
\* has the generic class itself.
NoVariantFor(code) ==
    Get(RegistryFor(code), code, GenericFor(code)) = GenericFor(code)

\* C8: exc_from_error on a code with no registered variant gives the generic
\* class of the code's domain, carrying the received code.
C8_FallbackKeepsCode ==
    (op = "exc_from_error" /\ NoVariantFor(arg.code.i))
    => /\ ret.cls = GenericFor(arg.code.i)
       /\ ret.error.code = arg.code

\* The last call was exc_from_error(V(message, data).get_error()), V's code not
\* being declared again since V.
VariantRoundTripped ==
    /\ op = "exc_from_error"
    /\ held.t = "exception"
    /\ held.error.code = PyInt(held.cls.code)
    /\ held.cls \notin {JsonRpcReservedError, JsonRpcApplicationError}
    /\ RegistryFor(held.cls.code)[held.cls.code].n = held.cls.n

\* C9: exc_from_error(V(message, data).get_error()) is an instance of exactly V
\* and carries the received message and data.
C9_VariantRoundTrip ==
    VariantRoundTripped
    => /\ ret.cls = held.cls
       /\ ret.error.message = arg.message
       /\ ret.error.data = arg.data

\* The class is declared in the hierarchy its code does not belong to.
WrongDomain(cls) == (cls.domain = "reserved") # InReservedRange(cls.code)

\* C10: a class statement with a code in the wrong domain raises RuntimeError and
\* leaves both registries as they were.
C10_WrongDomainDeclaration ==
    [][ (op' = "class" /\ WrongDomain(arg'))
        => /\ outcome' = "raise"
           /\ ret'.cls = RuntimeError
           /\ UNCHANGED <<reserved_classes, application_classes>> ]_vars

C10_Witness ==
    /\ op = "class"
    /\ arg.domain = "application"
    /\ arg.code = ReservedLow
    /\ outcome = "raise"
    /\ declared = 1

\* C11: registration is last-registered-wins.  exc.py's own declarations leave
\* -32602 mapped to the class declared last with it; a class statement that
\* succeeds maps its code to the new class, whether or not the code had a class,
\* and changes no other mapping; nothing else changes a registry; and
\* exc_from_error of a registered code instantiates the class the registry holds.
C11_LastRegisteredWins ==
    /\ reserved_classes[JsonRpcInternalError.code] = JsonRpcInternalError
    /\ [][ /\ (op' = "class" /\ outcome' = "return")
              => IF arg'.domain = "reserved"
                 THEN /\ reserved_classes' =
                            Put(reserved_classes, arg'.code, arg')
                      /\ UNCHANGED application_classes
                 ELSE /\ application_classes' =
                            Put(application_classes, arg'.code, arg')
                      /\ UNCHANGED reserved_classes
           /\ ~(op' = "class" /\ outcome' = "return")
              => UNCHANGED <<reserved_classes, application_classes>>
           /\ (op' = "exc_from_error"
               /\ HasKey(RegistryFor(arg'.code.i), arg'.code.i))
              => ret'.cls = RegistryFor(arg'.code.i)[arg'.code.i] ]_vars

\* A code declared twice, and an error with that code reconstructed.
C11_Witness ==
    /\ op = "exc_from_error"
    /\ arg.code = PyInt(JsonRpcParseError.code)
    /\ reserved_classes[JsonRpcParseError.code].n = 2
    /\ ret.cls = reserved_classes[JsonRpcParseError.code]

\* The exception's code lies in the domain of its class.
CodeInDomainOfKind(exc) ==
    (exc.cls.domain = "reserved") = InReservedRange(exc.error.code.i)

\* C22: the code an exception carries lies in the domain of its kind.  After any
\* declarations and constructions, an instance of a reserved class has a code
\* in [-32768, -32000] and an instance of an application class a code outside
\* it, whatever code argument it was built with (0 and reserved codes
\* included), and that code is the argument when one was given.
C22_CodeInDomain ==
    /\ held.t = "exception" => CodeInDomainOfKind(held)
    /\ (op \in {"exception", "exc_from_error"} /\ outcome = "return")
       => CodeInDomainOfKind(ret)
    /\ (op = "exception" /\ arg.cls.domain = "application" /\ ~IsNone(arg.code))
       => ret.error.code = arg.code

(***************************************************************************)
(* main.py: JsonRpcPeer.  Bytes are kept as what decoding them gives: utf8  *)
(* tells whether they decode as text, json whether the text is JSON, doc    *)
(* the JSON document.                                                      *)
(***************************************************************************)
Bytes(utf8, json, doc) == [t |-> "bytes", utf8 |-> utf8, json |-> json, doc |-> doc]
Tuple(items) == [t |-> "tuple", items |-> items]

\* What json.dumps can write.
RECURSIVE Serializable(_)
Serializable(v) ==
    CASE v.t = "dict" -> \A k \in DOMAIN v.members : Serializable(v.members[k])
      [] v.t = "list" -> \A n \in DOMAIN v.items : Serializable(v.items[n])
      [] OTHER -> v.t \in {"null", "bool", "int", "float", "str"}

\* json.dumps(json_dict).encode("utf8")
DumpsEncode(json_dict) ==
    IF Serializable(json_dict) THEN Return(Bytes(TRUE, TRUE, json_dict))
    ELSE PyRaise(TypeError)

\* An itertools.count() that hands out the same value again.
NextIdStuck(counter) == counter

\* The state of itertools.count() after next()
NextId(counter) == counter + 1

\* JsonRpcPeer.request, request_id being next(self._id_gen)
PeerRequest(request_id, method, params) ==
    LET req == NewJsonRpcRequest(PyInt(request_id), method, params, PyStr("2.0"))
    IN IF Raised(req) THEN req
       ELSE LET bytes_to_send == DumpsEncode(RequestToJsonDict(req.value))
            IN IF Raised(bytes_to_send) THEN bytes_to_send
               ELSE Return(Tuple(<<PyInt(request_id), bytes_to_send.value>>))

\* JsonRpcPeer.notify; oid is the identity of the MissingId() it makes.
PeerNotify(method, params, oid) ==
    LET req == NewJsonRpcRequest(MissingId(oid), method, params, PyStr("2.0"))
    IN IF Raised(req) THEN req ELSE DumpsEncode(RequestToJsonDict(req.value))

\* The bytes of a response, once it is constructed.
ResponseBytes(resp) ==
    IF Raised(resp) THEN resp
    ELSE LET dict_ == ResponseToJsonDict(resp.value)
         IN IF Raised(dict_) THEN dict_ ELSE DumpsEncode(dict_.value)

\* JsonRpcPeer.respond_with_result
PeerRespondWithResult(request, result) ==
    ResponseBytes(NewJsonRpcResponse(request.id, result, PyNone, PyStr("2.0")))

\* JsonRpcPeer.respond_with_error; request is a request or None.
PeerRespondWithError(request, error) ==
    LET request_id == IF IsNone(request) THEN PyNone ELSE request.id
    IN ResponseBytes(NewJsonRpcResponse(request_id, PyNone, error, PyStr("2.0")))

\* key in recv_dict, for what json.loads can return: a key of a dict, an item of
\* a list, a part of a string (the strings here hold a key or nothing of one);
\* a number, a boolean and null are not iterable.
Contains(recv_dict, key) ==
    CASE recv_dict.t = "dict" -> Return(HasKey(recv_dict.members, key))
      [] recv_dict.t = "list" ->
            Return(\E n \in DOMAIN recv_dict.items : recv_dict.items[n] = PyStr(key))
      [] recv_dict.t = "str" -> Return(recv_dict.s = key)
      [] OTHER -> PyRaise(TypeError)

\* A parse that hands the bytes to json.loads before decoding them as text.
PeerParseLoadsFirst(recv_bytes, oid) ==
    IF ~recv_bytes.json
    THEN Raise(ReservedInit(JsonRpcParseError, PyStr("Invalid JSON format"), PyNone))
    ELSE IF ~recv_bytes.utf8
    THEN Raise(ReservedInit(JsonRpcParseError, PyStr("Invalid ASCII encoding"), PyNone))
    ELSE LET recv_dict == recv_bytes.doc
             has_method == Contains(recv_dict, "method")
             has_result == Contains(recv_dict, "result")
             has_error == Contains(recv_dict, "error")
             one(message) == IF Raised(message) THEN message
                             ELSE Return(Tuple(<<message.value>>))
         IN IF Raised(has_method) THEN has_method
            ELSE IF has_method.value THEN one(RequestFromJsonDict(recv_dict, oid))
            ELSE IF has_result.value \/ has_error.value
            THEN one(ResponseFromJsonDict(recv_dict))
            ELSE Raise(ReservedInit(JsonRpcParseError,
                        PyStr("Could parse a request or a response: "), PyNone))

\* JsonRpcPeer.parse; the message of the last error is followed in the source by
\* the first 100 characters of the text, which the model leaves out.
PeerParse(recv_bytes, oid) ==
    IF ~recv_bytes.utf8
    THEN Raise(ReservedInit(JsonRpcParseError, PyStr("Invalid ASCII encoding"), PyNone))
    ELSE IF ~recv_bytes.json
    THEN Raise(ReservedInit(JsonRpcParseError, PyStr("Invalid JSON format"), PyNone))
    ELSE LET recv_dict == recv_bytes.doc
             has_method == Contains(recv_dict, "method")
             has_result == Contains(recv_dict, "result")
             has_error == Contains(recv_dict, "error")
             one(message) == IF Raised(message) THEN message
                             ELSE Return(Tuple(<<message.value>>))
         IN IF Raised(has_method) THEN has_method
            ELSE IF has_method.value THEN one(RequestFromJsonDict(recv_dict, oid))
            ELSE IF has_result.value \/ has_error.value
            THEN one(ResponseFromJsonDict(recv_dict))
            ELSE Raise(ReservedInit(JsonRpcParseError,
                        PyStr("Could parse a request or a response: "), PyNone))

(***************************************************************************)
(* The peer's operations.                                                  *)
(***************************************************************************)
\* In request_log, one call of request(): whether it returned, and the id it took.
LogEntry(returned, id) == [returned |-> returned, id |-> id]

\* The requests a caller can hold.
RequestsHeld ==
    { JsonRpcRequest(i, PyStr("hello_world"), p, PyStr("2.0")) :
        i \in {PyInt(0), PyInt(1), PyFloat(2), PyStr("a"), MissingId(0)},
        p \in {PyNone, FooBar} }
PeerResults == {PyNone, PyInt(0), PyStr("result"), FooBar}
PeerErrors == {AnError, AnErrorWithData}
ParseVersions == {PyStr("2.0"), PyStr("1.0"), Absent}
ParseWires ==
    { WireOf([id |-> i, method |-> m, params |-> p, jsonrpc |-> v, result |-> r,
              error |-> e]) :
        i \in {PyInt(0), PyNone, Absent}, m \in {PyStr("hello_world"), Absent},
        p \in {Absent}, v \in ParseVersions,
        r \in {PyInt(0), PyNone, Absent},
        e \in {ErrorToJsonDict(AnError), Dict([code |-> PyInt(1)]), Absent} }
\* Bytes that are not UTF-8 (some of them JSON in another encoding, which
\* json.loads would read), text that is not JSON, and JSON documents.
ParseInputs ==
    { Bytes(FALSE, FALSE, PyNone), Bytes(FALSE, TRUE, EmptyDict),
      Bytes(TRUE, FALSE, PyNone) }
    \cup { Bytes(TRUE, TRUE, d) :
            d \in ParseWires \cup { PyInt(1), PyNone, List(<<PyInt(1)>>),
                                    List(<<PyStr("method")>>), PyStr("method") } }

\* A request() that builds the request before it takes the id, so that a call
\* failing validation leaves the counter alone.
RequestValidatesFirst ==
    \E method \in Methods, params \in Params :
        LET request_id == id_gen
            result == PeerRequest(request_id, method, params)
        IN /\ Len(request_log) < MaxRequests
           /\ id_gen' = IF Raised(result) THEN id_gen ELSE NextId(id_gen)
           /\ request_log' = Append(request_log,
                                    LogEntry(~Raised(result), request_id))
           /\ Called("request", Tuple(<<method, params>>), result)
           /\ UNCHANGED <<callers, held, wire, RegistryVars>>

Request ==
    \E method \in Methods, params \in Params :
        LET request_id == id_gen
            result == PeerRequest(request_id, method, params)
        IN /\ Len(request_log) < MaxRequests
           /\ id_gen' = NextId(id_gen)
           /\ request_log' = Append(request_log,
                                    LogEntry(~Raised(result), request_id))
           /\ Called("request", Tuple(<<method, params>>), result)
           /\ UNCHANGED <<callers, held, wire, RegistryVars>>

\* A notify that takes an id from the counter, as request does.
NotifyTakesId ==
    \E method \in Methods, params \in Params :
        /\ id_gen < MaxRequests
        /\ id_gen' = NextId(id_gen)
        /\ Called("notify", Tuple(<<method, params>>),
                  PeerNotify(method, params, NewOid(Live)))
        /\ UNCHANGED <<callers, held, wire, request_log, RegistryVars>>

Notify ==
    \E method \in Methods, params \in Params :
        /\ Called("notify", Tuple(<<method, params>>),
                  PeerNotify(method, params, NewOid(Live)))
        /\ UNCHANGED <<callers, held, wire, PeerVars, RegistryVars>>

RespondWithResult ==
    \E request \in RequestsHeld, result \in PeerResults :
        /\ Called("respond_with_result", Tuple(<<request, result>>),
                  PeerRespondWithResult(request, result))
        /\ UNCHANGED <<callers, held, wire, PeerVars, RegistryVars>>

RespondWithError ==
    \E request \in RequestsHeld \cup {PyNone}, error \in PeerErrors :
        /\ Called("respond_with_error", Tuple(<<request, error>>),
                  PeerRespondWithError(request, error))
        /\ UNCHANGED <<callers, held, wire, PeerVars, RegistryVars>>

\* parse(recv_bytes), of bytes received or of the bytes the last call returned.
Parse ==
    \E recv_bytes \in ParseInputs \cup (IF ret.t = "bytes" THEN {ret} ELSE {}) :
        /\ Called("parse", recv_bytes, PeerParse(recv_bytes, NewOid(Live)))
        /\ UNCHANGED <<callers, held, wire, PeerVars, RegistryVars>>

Next == Request \/ Notify \/ RespondWithResult \/ RespondWithError \/ Parse
Spec == Init /\ [][Next]_vars

(***************************************************************************)
(* Properties of the peer, checked under Spec.                             *)
(***************************************************************************)
\* The ids request() returned, in the order of the calls.
ReturnedAt(n) == request_log[n].returned

\* C1: the ids request() returns are strictly increasing, so never used twice,
\* whatever other calls come between; the first call of a fresh peer returns 0
\* and, when it did, the second returns 1.
C1_IdsIncrease ==
    /\ \A m, n \in DOMAIN request_log :
          (m < n /\ ReturnedAt(m) /\ ReturnedAt(n))
          => request_log[m].id < request_log[n].id
    /\ (Len(request_log) >= 1 /\ ReturnedAt(1)) => request_log[1].id = 0
    /\ (Len(request_log) >= 2 /\ ReturnedAt(1) /\ ReturnedAt(2))
       => request_log[2].id = 1
    /\ (op = "request" /\ outcome = "return")
       => ret.items[1] = PyInt(request_log[Len(request_log)].id)

C1_Witness ==
    /\ Len(request_log) = MaxRequests
    /\ \A n \in DOMAIN request_log : request_log[n] = LogEntry(TRUE, n - 1)
    /\ op = "parse"

\* The last call was parse() of bytes that decode to a JSON object.
ParsedObject == op = "parse" /\ arg.utf8 /\ arg.json /\ arg.doc.t = "dict"

\* C12: parse classifies a JSON object by its keys.  What it returns is one
\* message, a JsonRpcRequest when the key method is there and a JsonRpcResponse
\* when result or error is; with none of the three keys it raises
\* JsonRpcParseError with a message starting "Could not parse a request or a
\* response: " (the message modelled is that start).
C12_ParseClassifies ==
    ParsedObject
    => LET d == arg.doc.members
           request == HasKey(d, "method")
           response == HasKey(d, "result") \/ HasKey(d, "error")
       IN /\ outcome = "return"
             => /\ ret.t = "tuple" /\ Len(ret.items) = 1
                /\ request \/ response
                /\ ret.items[1].t = IF request THEN "JsonRpcRequest"
                                    ELSE "JsonRpcResponse"
          /\ (~request /\ ~response)
             => /\ outcome = "raise"
                /\ ret.cls = JsonRpcParseError
                /\ ret.error.message =
                     PyStr("Could not parse a request or a response: ")

\* C13: parse reports a decoding failure as JsonRpcParseError, code -32700, in
\* the order of the decoding steps: bytes that are not text raise it with
\* "Invalid ASCII encoding", whether or not they would read as JSON, and text
\* that is not JSON with "Invalid JSON format"; no message is returned.
C13_DecodingFailures ==
    /\ (op = "parse" /\ ~arg.utf8)
       => /\ outcome = "raise"
          /\ ret.cls = JsonRpcParseError
          /\ ret.error.code = PyInt(-32700)
          /\ ret.error.message = PyStr("Invalid ASCII encoding")
    /\ (op = "parse" /\ arg.utf8 /\ ~arg.json)
       => /\ outcome = "raise"
          /\ ret.cls = JsonRpcParseError
          /\ ret.error.code = PyInt(-32700)
          /\ ret.error.message = PyStr("Invalid JSON format")

C13_Witness ==
    /\ op = "parse"
    /\ arg = Bytes(FALSE, FALSE, PyNone)
    /\ outcome = "raise"
    /\ ret.error.message = PyStr("Invalid ASCII encoding")
    /\ id_gen = 1

\* An exception of the error taxonomy: a JsonRpcException carrying a JsonRpcError.
InTaxonomy(exc) ==
    /\ exc.t = "exception"
    /\ exc.cls.domain \in {"reserved", "application"}
    /\ exc.error.t = "JsonRpcError"

\* C14: parse and the two from_json_dict either return a message or raise an
\* exception of the error taxonomy, for every byte buffer: JSON that is not an
\* object, objects without jsonrpc, a response without id and an error object
\* without code or message included.
C14_FailuresInTaxonomy ==
    (op \in {"parse", "JsonRpcRequest.from_json_dict",
             "JsonRpcResponse.from_json_dict"} /\ outcome = "raise")
    => InTaxonomy(ret)


\* The JSON object of an error: code, message, and data when the error has one.
IsErrorObject(obj, error) ==
    /\ obj.t = "dict"
    /\ DOMAIN obj.members =
         {"code", "message"} \cup (IF IsNone(error.data) THEN {} ELSE {"data"})
    /\ obj.members["code"] = error.code
    /\ obj.members["message"] = error.message
    /\ ~IsNone(error.data) => obj.members["data"] = error.data

\* C15: a response the peer builds carries the id of the request it answers.
\* For a request with an id, respond_with_result returns the bytes of an object
\* with exactly jsonrpc = "2.0", id = request.id and result, and
\* respond_with_error those of one with jsonrpc, id = request.id and the error
\* object; respond_with_error(None, error) writes the id as null.
C15_ResponseCarriesId ==
    /\ (op = "respond_with_result" /\ ~IsMissingId(arg.items[1].id))
       => /\ outcome = "return"
          /\ ret.t = "bytes" /\ ret.utf8 /\ ret.json
          /\ ret.doc = Dict([jsonrpc |-> PyStr("2.0"), id |-> arg.items[1].id,
                             result |-> arg.items[2]])
    /\ (op = "respond_with_error"
        /\ (IsNone(arg.items[1]) \/ ~IsMissingId(arg.items[1].id)))
       => /\ outcome = "return"
          /\ ret.t = "bytes" /\ ret.utf8 /\ ret.json
          /\ DOMAIN ret.doc.members = {"jsonrpc", "id", "error"}
          /\ ret.doc.members["jsonrpc"] = PyStr("2.0")
          /\ ret.doc.members["id"] =
               IF IsNone(arg.items[1]) THEN PyNone ELSE arg.items[1].id
          /\ IsErrorObject(ret.doc.members["error"], arg.items[2])

\* The bytes of a well-formed response: no method, id and jsonrpc = "2.0"
\* there, and either a result that is not null or a complete error object.
ResponseBytesWith(id, result, error) ==
    Bytes(TRUE, TRUE,
          WireOf([id |-> id, jsonrpc |-> PyStr("2.0"), result |-> result,
                  error |-> IF error = Absent THEN Absent
                            ELSE ErrorToJsonDict(error)]))

\* parse of a well-formed response returns that response, whatever ids request()
\* has handed out so far.
ParseIgnoresHistory ==
    \A id \in {PyInt(0), PyNone} :
        /\ (op = "parse" /\ arg = ResponseBytesWith(id, PyInt(0), Absent))
           => /\ outcome = "return"
              /\ ret = Tuple(<<JsonRpcResponse(id, PyInt(0), PyNone, PyStr("2.0"))>>)
        /\ (op = "parse" /\ arg = ResponseBytesWith(id, Absent, AnError))
           => /\ outcome = "return"
              /\ ret = Tuple(<<JsonRpcResponse(id, PyNone, AnError, PyStr("2.0"))>>)

RequestKeys(has_id, params) ==
    {"method", "jsonrpc"} \cup (IF has_id THEN {"id"} ELSE {})
                          \cup (IF IsNone(params) THEN {} ELSE {"params"})

\* C18: request serialization never invents fields.  The object request() and
\* notify() write, which is to_json_dict() of the request they build, always has
\* method and jsonrpc, has id exactly when the request is not a notification
\* (the bytes of notify() have no id key, not even a null one), has params
\* exactly when params were given, and each key holds the request's value.
C18_RequestSerialization ==
    /\ (op = "request" /\ outcome = "return")
       => LET d == ret.items[2].doc.members
          IN /\ DOMAIN d = RequestKeys(TRUE, arg.items[2])
             /\ d["id"] = ret.items[1]
             /\ d["method"] = arg.items[1]
             /\ d["jsonrpc"] = PyStr("2.0")
             /\ ~IsNone(arg.items[2]) => d["params"] = arg.items[2]
    /\ (op = "notify" /\ outcome = "return")
       => LET d == ret.doc.members
          IN /\ DOMAIN d = RequestKeys(FALSE, arg.items[2])
             /\ d["method"] = arg.items[1]
             /\ d["jsonrpc"] = PyStr("2.0")
             /\ ~IsNone(arg.items[2]) => d["params"] = arg.items[2]

\* A notification with the empty object as params.
C18_Witness ==
    /\ op = "notify"
    /\ arg.items[2] = EmptyDict
    /\ outcome = "return"
    /\ DOMAIN ret.doc.members = {"method", "jsonrpc", "params"}
    /\ id_gen = 1

\* C19: every message parse returns, request or response, has jsonrpc equal to
\* "2.0"; a JSON object with any other jsonrpc value is rejected.
C19_ProtocolVersion ==
    /\ (op = "parse" /\ outcome = "return")
       => \A n \in DOMAIN ret.items : ret.items[n].jsonrpc = PyStr("2.0")
    /\ (ParsedObject /\ HasKey(arg.doc.members, "jsonrpc")
        /\ arg.doc.members["jsonrpc"] # PyStr("2.0"))
       => outcome = "raise"
\* C21: parse classifies by precedence of method.  An object with method
\* together with result or error is decoded as a request only: what is returned
\* is the one request its id, method and jsonrpc make, and a failure is not the
\* response's JsonRpcInternalError.  An object with both result and error and no
\* method is decoded as a response and rejected with JsonRpcInternalError.
C21_MethodPrecedence ==
    ParsedObject
    => LET d == arg.doc.members
           response == HasKey(d, "result") \/ HasKey(d, "error")
       IN /\ (HasKey(d, "method") /\ response)
             => /\ outcome = "return"
                   => /\ Len(ret.items) = 1
                      /\ ret.items[1].t = "JsonRpcRequest"
                      /\ ret.items[1].method = d["method"]
                      /\ ret.items[1].jsonrpc = d["jsonrpc"]
                      /\ IF HasKey(d, "id") THEN ret.items[1].id = d["id"]
                         ELSE IsNotification(ret.items[1])
                /\ outcome = "raise" => ret.cls # JsonRpcInternalError
          /\ (~HasKey(d, "method") /\ HasKey(d, "result") /\ HasKey(d, "error")
              /\ ResponseWireReadable(arg.doc))
             => /\ outcome = "raise"
                /\ ret.cls = JsonRpcInternalError

\* The last call was request() with a method that is not a string or params
\* that are neither an object nor an array.
InvalidRequestCall ==
    /\ op = "request"
    /\ \/ arg.items[1].t # "str"
       \/ ~(IsNone(arg.items[2]) \/ arg.items[2].t \in {"dict", "list"})
RaisedInvalidRequest == outcome = "raise" /\ ret.cls = JsonRpcInvalidRequestError

\* The calls of request() that returned, among the first n.
ReturnedUpTo(n) == {m \in 1..n : request_log[m].returned}

\* C20 as claimed: a request() that fails validation raises
\* JsonRpcInvalidRequestError and leaves the id counter unchanged, so the ids
\* the successful calls return are 0, 1, 2, ... with no gaps.
C20_FailedRequestKeepsCounter ==
    /\ InvalidRequestCall => RaisedInvalidRequest
    /\ id_gen = Cardinality(ReturnedUpTo(Len(request_log)))
    /\ \A n \in DOMAIN request_log :
          request_log[n].returned
          => request_log[n].id = Cardinality(ReturnedUpTo(n)) - 1

\* C20 amended: a request() that fails validation raises
\* JsonRpcInvalidRequestError after it took an id.  Every call of request()
\* advances the counter by one, so the id a successful call returns is the
\* number of request() calls made before it.
C20_FailedRequestTakesId ==
    /\ InvalidRequestCall => RaisedInvalidRequest
    /\ id_gen = Len(request_log)
    /\ \A n \in DOMAIN request_log : request_log[n].id = n - 1
    /\ (op = "request" /\ outcome = "return")
       => ret.items[1] = PyInt(Len(request_log) - 1)

\* A call that failed validation, then one that returned id 1.
C20_Witness ==
    /\ request_log = <<LogEntry(FALSE, 0), LogEntry(TRUE, 1)>>
    /\ op = "request"
    /\ outcome = "return"
    /\ ret.items[1] = PyInt(1)

(***************************************************************************)
(* Several threads calling request() on one peer.  next(self._id_gen) is   *)
(* one step (a call into C made under the interpreter lock); the rest of    *)
(* request() works on the thread's own values.                             *)
(***************************************************************************)
\* The calls that took an id: <<c, n>> is the n-th call of thread c.
CallsMade == UNION {{<<c, n>> : n \in DOMAIN callers[c].ids} : c \in Callers}
CallerMethods == {PyStr("hello_world"), PyInt(1)}
CallerParams == {PyNone, FooBar}

\* A next() whose update of the counter is lost when another thread is
\* inside request().
CallerTakeIdRacy(c) ==
    \E method \in CallerMethods, params \in CallerParams :
        /\ callers[c].pc = "idle"
        /\ Cardinality(CallsMade) < MaxRequests
        /\ id_gen' = IF \E d \in Callers \ {c} : callers[d].pc = "request"
                     THEN id_gen ELSE NextId(id_gen)
        /\ callers' = [callers EXCEPT ![c] =
                          InRequest(id_gen, method, params,
                                    Append(callers[c].ids, id_gen),
                                    callers[c].returned)]
        /\ UNCHANGED <<request_log, op, arg, outcome, ret, held, wire, RegistryVars>>

\* Thread c enters request(method, params): request_id = next(self._id_gen)
CallerTakeId(c) ==
    \E method \in CallerMethods, params \in CallerParams :
        /\ callers[c].pc = "idle"
        /\ Cardinality(CallsMade) < MaxRequests
        /\ id_gen' = NextId(id_gen)
        /\ callers' = [callers EXCEPT ![c] =
                          InRequest(id_gen, method, params,
                                    Append(callers[c].ids, id_gen),
                                    callers[c].returned)]
        /\ UNCHANGED <<request_log, op, arg, outcome, ret, held, wire, RegistryVars>>

\* Thread c builds the request, serializes it and returns, or raises.
CallerFinish(c) ==
    /\ callers[c].pc = "request"
    /\ LET self == callers[c]
           result == PeerRequest(self.request_id, self.method, self.params)
       IN /\ Called("request", Tuple(<<self.method, self.params>>), result)
          /\ callers' = [callers EXCEPT ![c] =
                Idle(self.ids,
                     IF Raised(result) THEN self.returned
                     ELSE Append(self.returned, result.value.items[1].i))]
    /\ UNCHANGED <<id_gen, request_log, held, wire, RegistryVars>>

NextCallers == \E c \in Callers : CallerTakeId(c) \/ CallerFinish(c)
SpecCallers == Init /\ [][NextCallers]_vars

\* The calls that returned: <<c, n>> is the n-th call of thread c to return.
CallsReturned ==
    UNION {{<<c, n>> : n \in DOMAIN callers[c].returned} : c \in Callers}

\* C17: with next(self._id_gen) one atomic step, in every interleaving of the
\* threads' request() calls the ids returned are pairwise distinct, and every id
\* from 0 to the number of calls minus one is taken by exactly one call.
C17_ConcurrentIdsDistinct ==
    /\ \A x, y \in CallsReturned :
          x # y => callers[x[1]].returned[x[2]] # callers[y[1]].returned[y[2]]
    /\ \A x, y \in CallsMade :
          x # y => callers[x[1]].ids[x[2]] # callers[y[1]].ids[y[2]]
    /\ {callers[x[1]].ids[x[2]] : x \in CallsMade} = 0 .. Cardinality(CallsMade) - 1
    /\ \A x \in CallsReturned :
          \E n \in DOMAIN callers[x[1]].ids :
              callers[x[1]].ids[n] = callers[x[1]].returned[x[2]]

\* Two threads inside request() at once, the later one returning first.
C17_Witness ==
    /\ callers[1].pc = "request"
    /\ callers[1].request_id = 0
    /\ callers[2].returned = <<1>>
    /\ op = "request"
    /\ outcome = "return"

====
